---- MODULE Spec2Model ----
(***************************************************************************)
(* Model of src/auth.rs of modio-rs: the Credentials / Token data model,   *)
(* the four provider option builders and their form-urlencoded bodies,     *)
(* and the Auth flow (request_code, security_code, external, link).        *)
(* Strings are TLA+ strings, read as sequences of one-character strings.   *)
(***************************************************************************)
EXTENDS Integers, Sequences, FiniteSets, TLC

VARIABLES
    builders,   \* the two option builders a caller holds, "A" and "B"
    modio,      \* the client: the Credentials the caller's Modio carries
    auth,       \* the Auth flow handle and the position of its async fn
    inflight,   \* the request handed to the Request collaborator, if any
    result,     \* what the last finished operation returned to the caller
    nflows,     \* number of Auth handles created so far
    nrequests   \* number of requests handed to the collaborator so far

vars == <<builders, modio, auth, inflight, result, nflows, nrequests>>
flowVars == <<modio, auth, inflight, result, nflows, nrequests>>

-----------------------------------------------------------------------------
(* Option<T> *)

NoneOpt == [some |-> FALSE]
Some(x) == [some |-> TRUE, v |-> x]

-----------------------------------------------------------------------------
(* Bytes of a string, str ordering, u64::to_string, form_urlencoded *)

Digits == "0123456789"
UpperCase == "ABCDEFGHIJKLMNOPQRSTUVWXYZ"
LowerCase == "abcdefghijklmnopqrstuvwxyz"
HexDigits == "0123456789ABCDEF"

CharAt(s, i) == SubSeq(s, i, i)

IndexOf(c, s) ==
    IF \E i \in 1..Len(s) : CharAt(s, i) = c
    THEN CHOOSE i \in 1..Len(s) : CharAt(s, i) = c
    ELSE 0

\* The ASCII code of a one-character string.
AsciiCode(c) ==
    IF IndexOf(c, Digits) > 0 THEN 47 + IndexOf(c, Digits)
    ELSE IF IndexOf(c, UpperCase) > 0 THEN 64 + IndexOf(c, UpperCase)
    ELSE IF IndexOf(c, LowerCase) > 0 THEN 96 + IndexOf(c, LowerCase)
    ELSE CASE c = " " -> 32
           [] c = "%" -> 37
           [] c = "&" -> 38
           [] c = "(" -> 40
           [] c = ")" -> 41
           [] c = "*" -> 42
           [] c = "+" -> 43
           [] c = "-" -> 45
           [] c = "." -> 46
           [] c = "/" -> 47
           [] c = ":" -> 58
           [] c = "=" -> 61
           [] c = "@" -> 64
           [] c = "_" -> 95

\* The characters that occur in the strings of this model.
Chars ==
    {CharAt(Digits, i) : i \in 1..Len(Digits)}
    \cup {CharAt(UpperCase, i) : i \in 1..Len(UpperCase)}
    \cup {CharAt(LowerCase, i) : i \in 1..Len(LowerCase)}
    \cup {" ", "%", "&", "(", ")", "*", "+", "-", ".", "/", ":", "=", "@", "_"}

ByteTable == [c \in Chars |-> AsciiCode(c)]

Byte(c) == ByteTable[c]

\* Ord for str: lexicographic comparison of the bytes.
RECURSIVE StrLess(_, _)
StrLess(a, b) ==
    IF a = "" THEN b # ""
    ELSE IF b = "" THEN FALSE
    ELSE IF Head(a) = Head(b) THEN StrLess(Tail(a), Tail(b))
    ELSE Byte(Head(a)) < Byte(Head(b))

\* u64::to_string: the decimal digits, most significant first.
RECURSIVE u64_to_string(_)
u64_to_string(n) ==
    IF n < 10 THEN CharAt(Digits, n + 1)
    ELSE u64_to_string(n \div 10) \o CharAt(Digits, (n % 10) + 1)

\* form_urlencoded::byte_serialize on one byte.
PercentEncodeByteUnreserved(c) ==
    \/ IndexOf(c, Digits) > 0
    \/ IndexOf(c, UpperCase) > 0
    \/ IndexOf(c, LowerCase) > 0
    \/ c \in {"*", "-", ".", "_"}

SerializeByte(c) ==
    IF PercentEncodeByteUnreserved(c) THEN c
    ELSE IF c = " " THEN "+"
    ELSE "%" \o CharAt(HexDigits, (Byte(c) \div 16) + 1)
             \o CharAt(HexDigits, (Byte(c) % 16) + 1)

SerializeTable == [c \in Chars |-> SerializeByte(c)]

RECURSIVE byte_serialize(_)
byte_serialize(s) ==
    IF s = "" THEN "" ELSE SerializeTable[Head(s)] \o byte_serialize(Tail(s))

\* Serializer::append_pair on the target string built so far.
append_pair(target, name, value) ==
    (IF target = "" THEN "" ELSE target \o "&")
        \o byte_serialize(name) \o "=" \o byte_serialize(value)

\* Serializer::extend_pairs: append_pair for each pair, in iteration order.
RECURSIVE extend_pairs(_, _)
extend_pairs(target, pairs) ==
    IF pairs = <<>> THEN target
    ELSE extend_pairs(append_pair(target, Head(pairs)[1], Head(pairs)[2]),
                      Tail(pairs))

-----------------------------------------------------------------------------
(* BTreeMap<&'static str, String>: the pairs in ascending key order *)

BTreeMap_new == <<>>

\* An insertion-ordered map in place of the BTreeMap: a new key goes last.
InsertionOrdered_insert(m, k, v) ==
    IF \E i \in 1..Len(m) : m[i][1] = k
    THEN [i \in 1..Len(m) |-> IF m[i][1] = k THEN <<k, v>> ELSE m[i]]
    ELSE Append(m, <<k, v>>)

BTreeMap_insert(m, k, v) ==
    IF \E i \in 1..Len(m) : m[i][1] = k
    THEN [i \in 1..Len(m) |-> IF m[i][1] = k THEN <<k, v>> ELSE m[i]]
    ELSE LET n == Cardinality({i \in 1..Len(m) : StrLess(m[i][1], k)})
         IN  SubSeq(m, 1, n) \o <<(<<k, v>>)>> \o SubSeq(m, n + 1, Len(m))

-----------------------------------------------------------------------------
(* Provider options: GalaxyOptions, ItchioOptions, OculusOptions, SteamOptions *)

GalaxyOptions_new(ticket) ==
    [type |-> "GalaxyOptions",
     params |-> BTreeMap_insert(BTreeMap_new, "appdata", ticket)]

ItchioOptions_new(token) ==
    [type |-> "ItchioOptions",
     params |-> BTreeMap_insert(BTreeMap_new, "itchio_token", token)]

\* The two string arguments of OculusOptions::new stored under each
\* other's key.
OculusOptions_new_swapped(nonce, user_id, auth_token) ==
    [type |-> "OculusOptions",
     params |-> BTreeMap_insert(
                    BTreeMap_insert(
                        BTreeMap_insert(BTreeMap_new, "nonce", auth_token),
                        "user_id", u64_to_string(user_id)),
                    "auth_token", nonce)]

OculusOptions_new(nonce, user_id, auth_token) ==
    [type |-> "OculusOptions",
     params |-> BTreeMap_insert(
                    BTreeMap_insert(
                        BTreeMap_insert(BTreeMap_new, "nonce", nonce),
                        "user_id", u64_to_string(user_id)),
                    "auth_token", auth_token)]

SteamOptions_new(ticket) ==
    [type |-> "SteamOptions",
     params |-> BTreeMap_insert(BTreeMap_new, "appdata", ticket)]

\* option!(name >> key): the setter takes the builder, inserts the value
\* under the key and hands the builder back.
option(opts, key, value) ==
    [opts EXCEPT !.params = BTreeMap_insert(@, key, value)]

email(opts, value) == option(opts, "email", value)

expired_at(opts, value) == option(opts, "date_expires", u64_to_string(value))

\* impl QueryString for GalaxyOptions / ItchioOptions / OculusOptions /
\* SteamOptions: the same body in all four.
to_query_string(opts) == extend_pairs("", opts.params)

-----------------------------------------------------------------------------
(* The values callers pass *)

Tickets == {"T1", "a b"}
ItchioTokens == {"k=1"}
Nonces == {"n"}
UserIds == {42}
OculusTokens == {"tok"}
Emails == {"a@b.com", "x y"}
Timestamps == {7, 1700}

\* A builder as the caller holds it: the option value, and what the caller
\* has called on it (constructor arguments, the last argument of each
\* setter, which setter came first, whether a setter replaced a value).
Built(opts, args) ==
    [opts |-> opts, args |-> args, email |-> NoneOpt, expired_at |-> NoneOpt,
     first |-> "", overwrote |-> FALSE]

NewBuilders ==
    {Built(GalaxyOptions_new(t), [ticket |-> t]) : t \in Tickets}
    \cup {Built(SteamOptions_new(t), [ticket |-> t]) : t \in Tickets}
    \cup {Built(ItchioOptions_new(t), [token |-> t]) : t \in ItchioTokens}
    \cup {Built(OculusOptions_new(n, u, a),
                [nonce |-> n, user_id |-> u, auth_token |-> a]) :
            n \in Nonces, u \in UserIds, a \in OculusTokens}

BuilderNames == {"A", "B"}

CallEmail(w, v) ==
    /\ builders' = [builders EXCEPT ![w] =
            [@ EXCEPT !.opts = email(@, v),
                      !.email = Some(v),
                      !.first = IF @ = "" THEN "email" ELSE @,
                      !.overwrote = @ \/ builders[w].email.some]]
    /\ UNCHANGED flowVars

CallExpiredAt(w, t) ==
    /\ builders' = [builders EXCEPT ![w] =
            [@ EXCEPT !.opts = expired_at(@, t),
                      !.expired_at = Some(t),
                      !.first = IF @ = "" THEN "expired_at" ELSE @,
                      !.overwrote = @ \/ builders[w].expired_at.some]]
    /\ UNCHANGED flowVars

-----------------------------------------------------------------------------
(* Credentials and Token *)

Credentials_new(api_key) == [api_key |-> api_key, token |-> NoneOpt]

Credentials_with_token(api_key, token) ==
    [api_key |-> api_key,
     token |-> Some([value |-> token, expired_at |-> NoneOpt])]

\* A rendering that prints the key.
Credentials_fmt_leaky(c) ==
    IF c.token.some THEN "Credentials(" \o c.api_key \o "+token)"
    ELSE "Credentials(" \o c.api_key \o ")"

\* impl fmt::Debug for Credentials
Credentials_fmt(c) ==
    IF c.token.some THEN "Credentials(apikey+token)" ELSE "Credentials(apikey)"

-----------------------------------------------------------------------------
(* LinkOptions and Service *)

LinkOptions_steam(e, steam_id) ==
    [email |-> e, service |-> [variant |-> "Steam", id |-> steam_id]]

LinkOptions_gog(e, gog_id) ==
    [email |-> e, service |-> [variant |-> "Gog", id |-> gog_id]]

LinkOptions_itchio(e, itchio_id) ==
    [email |-> e, service |-> [variant |-> "Itchio", id |-> itchio_id]]

LinkOptions_to_query_string(options) ==
    LET service == CASE options.service.variant = "Steam" -> "steam"
                     [] options.service.variant = "Gog" -> "gog"
                     [] options.service.variant = "Itchio" -> "itch"
        id == u64_to_string(options.service.id)
    IN  append_pair(
            append_pair(append_pair("", "email", options.email),
                        "service", service),
            "service_id", id)

-----------------------------------------------------------------------------
(* AuthOptions and the conversions into it *)

AuthOptions_from(options) ==
    CASE options.type = "GalaxyOptions" -> [variant |-> "Gog", opts |-> options]
      [] options.type = "ItchioOptions" -> [variant |-> "Itchio", opts |-> options]
      [] options.type = "OculusOptions" -> [variant |-> "Oculus", opts |-> options]
      [] options.type = "SteamOptions" -> [variant |-> "Steam", opts |-> options]

\* The match with the Gog and Steam routes exchanged.
ExternalRouteAndData_swapped(auth_options) ==
    CASE auth_options.variant = "Gog" ->
            [route |-> "AuthSteam", data |-> to_query_string(auth_options.opts)]
      [] auth_options.variant = "Itchio" ->
            [route |-> "AuthItchio", data |-> to_query_string(auth_options.opts)]
      [] auth_options.variant = "Oculus" ->
            [route |-> "AuthOculus", data |-> to_query_string(auth_options.opts)]
      [] auth_options.variant = "Steam" ->
            [route |-> "AuthGog", data |-> to_query_string(auth_options.opts)]

\* The match of Auth::external: the route and the body of the request.
ExternalRouteAndData(auth_options) ==
    CASE auth_options.variant = "Gog" ->
            [route |-> "AuthGog", data |-> to_query_string(auth_options.opts)]
      [] auth_options.variant = "Itchio" ->
            [route |-> "AuthItchio", data |-> to_query_string(auth_options.opts)]
      [] auth_options.variant = "Oculus" ->
            [route |-> "AuthOculus", data |-> to_query_string(auth_options.opts)]
      [] auth_options.variant = "Steam" ->
            [route |-> "AuthSteam", data |-> to_query_string(auth_options.opts)]

-----------------------------------------------------------------------------
(* The Auth flow *)

ApiKeys == {"apikey", "k-2"}
StoredTokens == {"tok0"}
SecurityCodes == {"A1B2C"}
ServerTokens == {"srv1", "srv2"}
ServerExpiries == {NoneOpt, Some(1700)}
CollaboratorErrors == {"Network", "Unauthorized"}

ExternalOptions ==
    {GalaxyOptions_new("T1"),
     email(GalaxyOptions_new("T1"), "a@b.com"),
     expired_at(ItchioOptions_new("k=1"), 7),
     OculusOptions_new("n", 42, "tok"),
     email(expired_at(SteamOptions_new("a b"), 1700), "x y")}

LinkOptionsValues ==
    {LinkOptions_steam("a@b.com", 42),
     LinkOptions_gog("x y", 7),
     LinkOptions_itchio("a@b.com", 0)}

MaxFlows == 3

\* What the Request collaborator answers to send::<ModioMessage>() and to
\* send::<AccessToken>(): the decoded payload, or an error.
MessageReplies ==
    {[ok |-> TRUE, message |-> "ok"]}
    \cup {[ok |-> FALSE, error |-> e] : e \in CollaboratorErrors}

AccessTokenReplies ==
    {[ok |-> TRUE, value |-> v, expired_at |-> e] :
        v \in ServerTokens, e \in ServerExpiries}
    \cup {[ok |-> FALSE, error |-> e] : e \in CollaboratorErrors}

NoAuth == [pc |-> "none"]
NoResult == [tag |-> "none"]
OkUnit == [tag |-> "Ok", unit |-> TRUE]
OkCredentials(c) == [tag |-> "Ok", unit |-> FALSE, credentials |-> c]
Err(e) == [tag |-> "Err", error |-> e]

\* Auth::new(modio): the handle owns its own Modio.
Auth_new(m) == [pc |-> "ready", modio |-> m, sent |-> 0]

\* Modio::auth(&self): a new handle around a clone of the client.
ModioAuth ==
    /\ auth.pc \in {"none", "spent"}
    /\ nflows < MaxFlows
    /\ auth' = Auth_new(modio)
    /\ nflows' = nflows + 1
    /\ UNCHANGED <<builders, modio, inflight, result, nrequests>>

\* self.modio.request(route).body(data).send::<T>(): one request, made with
\* the credentials of the handle's client, handed to the collaborator; the
\* async fn then waits for the answer.  The handle was taken by value.
Send(op, arg, route, data) ==
    /\ inflight' = Some([route |-> route, body |-> data,
                         credentials |-> auth.modio])
    /\ nrequests' = nrequests + 1
    /\ auth' = [pc |-> "awaiting", modio |-> auth.modio, op |-> op,
                arg |-> arg, sent |-> auth.sent + 1]
    /\ UNCHANGED <<builders, modio, result>>

\* The async fn has run to its end: the handle is gone; what it was and what
\* the collaborator answered stay on record.
Return(reply, value) ==
    /\ inflight' = NoneOpt
    /\ result' = value
    /\ auth' = [pc |-> "spent", modio |-> auth.modio, op |-> auth.op,
                arg |-> auth.arg, sent |-> auth.sent, reply |-> reply]
    /\ UNCHANGED <<builders, modio, nflows, nrequests>>

\* request_code taking the handle by reference: the handle stays usable.
request_code_by_ref(e) ==
    /\ auth.pc = "ready"
    /\ inflight' = Some([route |-> "AuthEmailRequest",
                         body |-> append_pair("", "email", e),
                         credentials |-> auth.modio])
    /\ nrequests' = nrequests + 1
    /\ auth' = [auth EXCEPT !.sent = @ + 1]
    /\ UNCHANGED <<builders, modio, result, nflows>>

request_code(e) ==
    /\ auth.pc = "ready"
    /\ Send("request_code", e, "AuthEmailRequest", append_pair("", "email", e))
    /\ UNCHANGED nflows

request_code_resume(reply) ==
    /\ auth.pc = "awaiting" /\ auth.op = "request_code"
    /\ Return(reply, IF reply.ok THEN OkUnit ELSE Err(reply.error))

security_code(code) ==
    /\ auth.pc = "ready"
    /\ Send("security_code", code, "AuthEmailExchange",
            append_pair("", "security_code", code))
    /\ UNCHANGED nflows

\* An exchange that keeps a token the client already held.
ExchangedCredentials_keep_token(credentials, t) ==
    [api_key |-> credentials.api_key,
     token |-> IF credentials.token.some THEN credentials.token
               ELSE Some([value |-> t.value, expired_at |-> t.expired_at])]

\* An exchange that returns the api key alone.
ExchangedCredentials_no_token(credentials, t) ==
    [api_key |-> credentials.api_key, token |-> NoneOpt]

\* Credentials { api_key: self.modio.credentials.api_key, token: Some(token) }
ExchangedCredentials(credentials, t) ==
    [api_key |-> credentials.api_key,
     token |-> Some([value |-> t.value, expired_at |-> t.expired_at])]

\* security_code reporting every failure as Unauthorized.
security_code_resume_unauthorized(reply) ==
    /\ auth.pc = "awaiting" /\ auth.op = "security_code"
    /\ Return(reply,
              IF reply.ok
              THEN OkCredentials(ExchangedCredentials(auth.modio, reply))
              ELSE Err("Unauthorized"))

security_code_resume(reply) ==
    /\ auth.pc = "awaiting" /\ auth.op = "security_code"
    /\ Return(reply,
              IF reply.ok
              THEN OkCredentials(ExchangedCredentials(auth.modio, reply))
              ELSE Err(reply.error))

external(options) ==
    /\ auth.pc = "ready"
    /\ LET rd == ExternalRouteAndData(AuthOptions_from(options))
       IN  Send("external", options, rd.route, rd.data)
    /\ UNCHANGED nflows

external_resume(reply) ==
    /\ auth.pc = "awaiting" /\ auth.op = "external"
    /\ Return(reply,
              IF reply.ok
              THEN OkCredentials(ExchangedCredentials(auth.modio, reply))
              ELSE Err(reply.error))

link(options) ==
    /\ auth.pc = "ready"
    /\ Send("link", options, "LinkAccount", LinkOptions_to_query_string(options))
    /\ UNCHANGED nflows

\* link sending its request again after an error.
link_resume_retry(reply) ==
    /\ auth.pc = "awaiting" /\ auth.op = "link"
    /\ IF reply.ok
       THEN Return(reply, OkUnit)
       ELSE /\ nrequests < MaxFlows + 1
            /\ nrequests' = nrequests + 1
            /\ auth' = [auth EXCEPT !.sent = @ + 1]
            /\ UNCHANGED <<builders, modio, inflight, result, nflows>>

\* link answering like an exchange.
link_resume_as_exchange(reply) ==
    /\ auth.pc = "awaiting" /\ auth.op = "link"
    /\ Return(reply,
              IF reply.ok
              THEN OkCredentials(Credentials_with_token(auth.modio.api_key, "ok"))
              ELSE Err(reply.error))

link_resume(reply) ==
    /\ auth.pc = "awaiting" /\ auth.op = "link"
    /\ Return(reply, IF reply.ok THEN OkUnit ELSE Err(reply.error))

\* modio.with_credentials(token): the caller replaces the client by one that
\* carries the credentials an exchange returned.
WithCredentials ==
    /\ auth.pc # "awaiting"
    /\ result.tag = "Ok" /\ ~result.unit
    /\ modio' = result.credentials
    /\ result' = NoResult
    /\ UNCHANGED <<builders, auth, inflight, nflows, nrequests>>

-----------------------------------------------------------------------------
(* Specifications *)

InitialCredentials ==
    {Credentials_new(k) : k \in ApiKeys}
    \cup {Credentials_with_token(k, t) : k \in ApiKeys, t \in StoredTokens}

InitFlow ==
    /\ auth = NoAuth
    /\ inflight = NoneOpt
    /\ result = NoResult
    /\ nflows = 0
    /\ nrequests = 0

Init ==
    /\ builders = [w \in BuilderNames |->
                    Built(SteamOptions_new("T1"), [ticket |-> "T1"])]
    /\ modio \in InitialCredentials
    /\ InitFlow

Next ==
    \/ ModioAuth
    \/ \E e \in Emails : request_code(e)
    \/ \E r \in MessageReplies : request_code_resume(r)
    \/ \E c \in SecurityCodes : security_code(c)
    \/ \E r \in AccessTokenReplies : security_code_resume(r)
    \/ \E o \in ExternalOptions : external(o)
    \/ \E r \in AccessTokenReplies : external_resume(r)
    \/ \E o \in LinkOptionsValues : link(o)
    \/ \E r \in MessageReplies : link_resume(r)
    \/ WithCredentials

Spec == Init /\ [][Next]_vars

InitOptions ==
    /\ builders \in [BuilderNames -> NewBuilders]
    /\ modio = Credentials_new("apikey")
    /\ InitFlow

NextOptions ==
    \/ \E w \in BuilderNames, v \in Emails : CallEmail(w, v)
    \/ \E w \in BuilderNames, t \in Timestamps : CallExpiredAt(w, t)

SpecOptions == InitOptions /\ [][NextOptions]_vars

-----------------------------------------------------------------------------
(* Properties of the provider options (checked under SpecOptions) *)

\* The pieces of s between occurrences of the character sep.
RECURSIVE Split(_, _)
Split(s, sep) ==
    LET i == IndexOf(sep, s)
    IN  IF i = 0 THEN <<s>>
        ELSE <<SubSeq(s, 1, i - 1)>> \o Split(SubSeq(s, i + 1, Len(s)), sep)

\* The keys of a query string, in the order they are emitted.
QueryKeys(q) ==
    LET pairs == Split(q, "&")
    IN  [i \in 1..Len(pairs) |-> Split(pairs[i], "=")[1]]

Ascending(keys) ==
    \A i \in 1..(Len(keys) - 1) : StrLess(keys[i], keys[i + 1])

MandatoryKeys(type) ==
    CASE type = "GalaxyOptions" -> {"appdata"}
      [] type = "SteamOptions" -> {"appdata"}
      [] type = "ItchioOptions" -> {"itchio_token"}
      [] type = "OculusOptions" -> {"nonce", "user_id", "auth_token"}

ListedKeys(type) ==
    CASE type = "GalaxyOptions" -> <<"appdata", "date_expires", "email">>
      [] type = "SteamOptions" -> <<"appdata", "date_expires", "email">>
      [] type = "ItchioOptions" -> <<"date_expires", "email", "itchio_token">>
      [] type = "OculusOptions" ->
            <<"auth_token", "date_expires", "email", "nonce", "user_id">>

\* The listed keys a builder should emit after the calls made on it.
ExpectedKeys(b) ==
    SelectSeq(ListedKeys(b.opts.type),
              LAMBDA k : \/ k \in MandatoryKeys(b.opts.type)
                         \/ k = "email" /\ b.email.some
                         \/ k = "date_expires" /\ b.expired_at.some)

\* Two builders of one provider with the same constructor arguments and the
\* same last argument of each setter.
SameFinalValues(a, b) ==
    /\ a.opts.type = b.opts.type
    /\ a.args = b.args
    /\ a.email = b.email
    /\ a.expired_at = b.expired_at

\* C7: whatever the order and repetition of email and expired_at calls,
\* to_query_string emits the keys in ascending lexicographic order, which is
\* the listed order of the provider; two builders with the same final values
\* produce the same string; GalaxyOptions::new("T1").email("a@b.com") gives
\* appdata=T1&email=a%40b.com.
C7_QueryKeysSorted ==
    /\ \A w \in BuilderNames :
        LET b == builders[w]
            q == to_query_string(b.opts)
        IN  /\ Ascending(QueryKeys(q))
            /\ QueryKeys(q) = ExpectedKeys(b)
            /\ (/\ b.opts.type = "GalaxyOptions"
                /\ b.args.ticket = "T1"
                /\ b.email = Some("a@b.com")
                /\ ~b.expired_at.some)
               => q = "appdata=T1&email=a%40b.com"
    /\ SameFinalValues(builders["A"], builders["B"])
        => to_query_string(builders["A"].opts)
            = to_query_string(builders["B"].opts)

\* Two Oculus builders given the same final values, one by email first and
\* one by expired_at first, with a value replaced on the way.
C7_Witness ==
    /\ SameFinalValues(builders["A"], builders["B"])
    /\ builders["A"].opts.type = "OculusOptions"
    /\ builders["A"].first = "email"
    /\ builders["B"].first = "expired_at"
    /\ builders["A"].email.some /\ builders["A"].expired_at.some
    /\ builders["A"].overwrote

Occurrences(m, k) == Cardinality({i \in 1..Len(m) : m[i][1] = k})

ValueOf(m, k) == m[CHOOSE i \in 1..Len(m) : m[i][1] = k][2]

\* C8: after construction and any sequence of setter calls the field set
\* holds every mandatory key once with its constructor value, email and
\* date_expires only if the setter was called and then with the value of the
\* last call, no other key, and no key twice.
C8_FieldSet ==
    \A w \in BuilderNames :
        LET b == builders[w]
            m == b.opts.params
            t == b.opts.type
        IN  /\ \A i \in 1..Len(m) :
                    /\ m[i][1] \in MandatoryKeys(t) \cup {"email", "date_expires"}
                    /\ Occurrences(m, m[i][1]) = 1
            /\ \A k \in MandatoryKeys(t) : Occurrences(m, k) = 1
            /\ t \in {"GalaxyOptions", "SteamOptions"}
                => ValueOf(m, "appdata") = b.args.ticket
            /\ t = "ItchioOptions" => ValueOf(m, "itchio_token") = b.args.token
            /\ t = "OculusOptions"
                => /\ ValueOf(m, "nonce") = b.args.nonce
                   /\ ValueOf(m, "auth_token") = b.args.auth_token
                   /\ ValueOf(m, "user_id") = "42"
            /\ Occurrences(m, "email") = (IF b.email.some THEN 1 ELSE 0)
            /\ b.email.some => ValueOf(m, "email") = b.email.v
            /\ Occurrences(m, "date_expires")
                = (IF b.expired_at.some THEN 1 ELSE 0)
            /\ b.expired_at.some
                => ValueOf(m, "date_expires")
                    = (IF b.expired_at.v = 7 THEN "7" ELSE "1700")

\* An Oculus builder on which a setter was called again with another value,
\* and a builder on which email was never called.
C8_Witness ==
    /\ builders["A"].opts.type = "OculusOptions"
    /\ builders["A"].overwrote
    /\ builders["A"].email = Some("x y")
    /\ builders["A"].expired_at = Some(1700)
    /\ ~builders["B"].email.some

-----------------------------------------------------------------------------
(* Properties of the Auth flow (checked under Spec) *)

ExchangeOps == {"security_code", "external"}

Called == auth.pc \in {"awaiting", "spent"}

\* The step in which an operation of the handle starts, and the step in
\* which it ends.
CallStep == auth.pc = "ready" /\ auth'.pc = "awaiting"
ReturnStep == auth.pc = "awaiting" /\ auth'.pc = "spent"

HasCredentials(r) == r.tag = "Ok" /\ ~r.unit

\* C1: a successful security_code or external exchange returns Credentials
\* with the api_key of the client the handle was made from and with the
\* token the server issued (its value and its date_expires, absent when the
\* answer has none); a token the client held is not carried over.
C1_ExchangeReturnsFreshCredentials ==
    (auth.pc = "spent" /\ auth.op \in ExchangeOps /\ auth.reply.ok)
        => LET c == [api_key |-> auth.modio.api_key,
                     token |-> Some([value |-> auth.reply.value,
                                     expired_at |-> auth.reply.expired_at])]
           IN  \/ result = OkCredentials(c)
               \/ result = NoResult /\ modio = c

\* An external exchange by a client that already held a token, answered
\* without date_expires.
C1_Witness ==
    /\ auth.pc = "spent" /\ auth.op = "external" /\ auth.reply.ok
    /\ auth.modio.token.some
    /\ auth.modio.token.v.value # auth.reply.value
    /\ auth.reply.expired_at = NoneOpt
    /\ HasCredentials(result)

\* C2: when the collaborator answers with an error, the operation returns
\* that same error and not another in its place, returns no Credentials,
\* leaves the client's credentials as they were, and the client can make a
\* further handle.
C2_ErrorPropagates ==
    /\ [](auth.pc = "spent" /\ ~auth.reply.ok
            => /\ result = Err(auth.reply.error)
               /\ inflight = NoneOpt
               /\ nflows < MaxFlows => ENABLED ModioAuth)
    /\ [][ReturnStep /\ ~auth'.reply.ok
            => modio' = modio /\ ~HasCredentials(result')]_vars

\* A failed security_code exchange.
C2_Witness ==
    /\ auth.pc = "spent" /\ auth.op = "security_code"
    /\ ~auth.reply.ok
    /\ result = Err("Network")
    /\ ~modio.token.some

\* C3: the client's credentials go from no token to a token only by taking
\* over the Credentials a successful security_code or external exchange
\* returned; once they carry a token they always do; only a successful
\* exchange returns Credentials, and those carry a token; request_code, link
\* and failed exchanges change nothing.
C3_CredentialStateMachine ==
    /\ [][~modio.token.some /\ modio'.token.some
            => result = OkCredentials(modio')]_vars
    /\ [][modio.token.some => modio'.token.some]_vars
    /\ [][result' # result /\ HasCredentials(result')
            => /\ ReturnStep /\ auth.op \in ExchangeOps /\ auth'.reply.ok
               /\ result'.credentials.token.some]_vars
    /\ [][ReturnStep /\ (auth.op \notin ExchangeOps \/ ~auth'.reply.ok)
            => modio' = modio /\ ~HasCredentials(result')]_vars

\* The client carries a token that the handle it exchanged with did not.
C3_Witness ==
    /\ auth.pc = "spent" /\ auth.op \in ExchangeOps
    /\ ~auth.modio.token.some
    /\ modio.token.some

\* C4 as stated: a link request is issued only when the credentials carry
\* a token.
C4_LinkOnlyWhenAuthenticated ==
    (inflight.some /\ inflight.v.route = "LinkAccount")
        => inflight.v.credentials.token.some

\* C4 as amended: link issues its request whether or not the credentials
\* carry a token, and neither its call nor its return, successful or not,
\* changes the client's credentials or returns Credentials.
C4_LinkKeepsState ==
    /\ [][CallStep /\ auth'.op = "link"
            => /\ modio' = modio /\ result' = result
               /\ inflight'.v.credentials = auth.modio]_vars
    /\ [][ReturnStep /\ auth.op = "link"
            => /\ modio' = modio
               /\ result' = (IF auth'.reply.ok THEN OkUnit
                             ELSE Err(auth'.reply.error))]_vars

\* A link that has returned, made by a client without a token.
C4_Witness ==
    /\ auth.pc = "spent" /\ auth.op = "link"
    /\ ~auth.modio.token.some
    /\ ~modio.token.some

\* C5 as stated: once an exchange has returned new Credentials, no request
\* is issued with the credentials from before the exchange.
C5_NoUseAfterExchange ==
    [][HasCredentials(result) /\ nrequests' # nrequests
        => inflight'.v.credentials = result.credentials]_vars

\* C5 as amended: a handle performs at most one operation (a request is
\* issued only by a handle that has not been used, which is then used up;
\* a usable handle after that is a new one), while the client is not used
\* up: an operation's return leaves the client's credentials in place, so
\* they serve further handles until the caller replaces them.
C5_HandleSingleUse ==
    /\ [][nrequests' # nrequests
            => CallStep /\ nrequests' = nrequests + 1]_vars
    /\ [][Called /\ auth'.pc = "ready" => nflows' = nflows + 1]_vars
    /\ [](nrequests <= nflows)
    /\ [][ReturnStep => modio' = modio]_vars
    /\ [][auth'.pc = "ready" /\ auth.pc # "ready" => auth'.modio = modio]_vars

\* A request in flight made with the client's credentials while the caller
\* holds the Credentials an earlier exchange returned.
C5_Witness ==
    /\ HasCredentials(result)
    /\ inflight.some
    /\ inflight.v.credentials = modio
    /\ inflight.v.credentials # result.credentials
    /\ nflows = 2

\* C6: each call issues exactly one request, whether it succeeds or fails:
\* one request per handle that was called, in flight exactly while the
\* operation waits, so that the requests issued are as many as the calls made.
C6_OneRequestPerCall ==
    /\ auth.pc = "ready" => auth.sent = 0
    /\ Called => auth.sent = 1
    /\ auth.pc = "awaiting" <=> inflight.some
    /\ nrequests = (IF Called THEN nflows
                    ELSE IF auth.pc = "ready" THEN nflows - 1 ELSE 0)

\* A second call that ended in an error.
C6_Witness ==
    /\ auth.pc = "spent" /\ ~auth.reply.ok
    /\ auth.op = "link"
    /\ nflows = 2 /\ nrequests = 2

-----------------------------------------------------------------------------
(* The Debug rendering *)

Contains(hay, needle) ==
    \E i \in 1..(Len(hay) - Len(needle) + 1) :
        SubSeq(hay, i, i + Len(needle) - 1) = needle

FixedTexts == {"Credentials(apikey+token)", "Credentials(apikey)"}

\* The Credentials values present in a state.
CredentialsInState ==
    {modio}
    \cup (IF auth.pc = "none" THEN {} ELSE {auth.modio})
    \cup (IF HasCredentials(result) THEN {result.credentials} ELSE {})

-----------------------------------------------------------------------------
(* Dispatch of Auth::external *)

ProviderRoute(type) ==
    CASE type = "GalaxyOptions" -> "AuthGog"
      [] type = "ItchioOptions" -> "AuthItchio"
      [] type = "OculusOptions" -> "AuthOculus"
      [] type = "SteamOptions" -> "AuthSteam"

\* C10: external sends one request, to the route of the provider of the
\* options it was given, with the body that option value's to_query_string
\* gives; the conversion into AuthOptions keeps the value as it is.
C10_ExternalDispatch ==
    (auth.pc = "awaiting" /\ auth.op = "external")
        => /\ inflight.some
           /\ inflight.v.route = ProviderRoute(auth.arg.type)
           /\ inflight.v.body = to_query_string(auth.arg)
           /\ AuthOptions_from(auth.arg).opts = auth.arg
           /\ auth.arg = OculusOptions_new("n", 42, "tok")
                => inflight.v.body = "auth_token=tok&nonce=n&user_id=42"

\* An external call with GalaxyOptions waiting for its answer.
C10_Witness ==
    /\ auth.pc = "awaiting" /\ auth.op = "external"
    /\ auth.arg.type = "GalaxyOptions"
    /\ inflight.v.route = "AuthGog"
    /\ inflight.v.body = "appdata=T1&email=a%40b.com"

====
